---- MODULE Spec2Model ----
(***************************************************************************)
(* Model of create_or_update_cost_export.py: one run of the script reads   *)
(* its environment, validates it, acquires a token, builds the export      *)
(* payload, PUTs it and optionally POSTs the run trigger.  Several runs    *)
(* (Instances) interleave against one remote Cost Management service.      *)
(***************************************************************************)
EXTENDS Integers, Sequences, FiniteSets, TLC

(***************************************************************************)
(* Calendar arithmetic, as datetime computes it (proleptic Gregorian       *)
(* ordinals: day 1 is 0001-01-01).                                         *)
(***************************************************************************)

SecondsPerDay == 24 * 3600

is_leap(year) == year % 4 = 0 /\ (year % 100 # 0 \/ year % 400 = 0)

DAYS_IN_MONTH == <<31, 28, 31, 30, 31, 30, 31, 31, 30, 31, 30, 31>>

RECURSIVE DAYS_BEFORE_MONTH(_)
DAYS_BEFORE_MONTH(month) ==
    IF month = 1 THEN 0
    ELSE DAYS_BEFORE_MONTH(month - 1) + DAYS_IN_MONTH[month - 1]

days_before_year(year) ==
    LET y == year - 1
    IN  y * 365 + (y \div 4) - (y \div 100) + (y \div 400)

days_before_month(year, month) ==
    DAYS_BEFORE_MONTH(month) + (IF month > 2 /\ is_leap(year) THEN 1 ELSE 0)

ymd2ord(year, month, day) ==
    days_before_year(year) + days_before_month(year, month) + day

DI400Y == days_before_year(401)
DI100Y == days_before_year(101)
DI4Y == days_before_year(5)

ord2ymd(ordinal) ==
    LET n0   == ordinal - 1
        n400 == n0 \div DI400Y
        r400 == n0 % DI400Y
        n100 == r400 \div DI100Y
        r100 == r400 % DI100Y
        n4   == r100 \div DI4Y
        r4   == r100 % DI4Y
        n1   == r4 \div 365
        n    == r4 % 365
        year == n400 * 400 + 1 + n100 * 100 + n4 * 4 + n1
    IN  IF n1 = 4 \/ n100 = 4
        THEN [year |-> year - 1, month |-> 12, day |-> 31]
        ELSE LET leapyear == n1 = 3 /\ (n4 # 24 \/ n100 = 3)
                 lp(m)    == IF m > 2 /\ leapyear THEN 1 ELSE 0
                 month0   == (n + 50) \div 32
                 prec0    == DAYS_BEFORE_MONTH(month0) + lp(month0)
                 month    == IF prec0 > n THEN month0 - 1 ELSE month0
                 prec     == IF prec0 > n
                             THEN prec0 - (DAYS_IN_MONTH[month]
                                           + (IF month = 2 /\ leapyear THEN 1 ELSE 0))
                             ELSE prec0
             IN  [year |-> year, month |-> month, day |-> n - prec + 1]

\* the ordinal of 1970-01-01, the origin of timestamps
EpochOrdinal == ymd2ord(1970, 1, 1)

\* datetime.now(timezone.utc): the fields of the instant (day, sec), where day
\* counts days since 1970-01-01 and sec the seconds into that day
utc_datetime(instant) ==
    LET d == ord2ymd(instant.day + EpochOrdinal)
    IN  [year |-> d.year, month |-> d.month, day |-> d.day,
         hour |-> instant.sec \div 3600,
         minute |-> (instant.sec % 3600) \div 60,
         second |-> instant.sec % 60]

\* a variant of datetime_add_days: the same day and time one year later
datetime_same_day_next_year(dt, days) == [dt EXCEPT !.year = @ + 1]

\* datetime + timedelta(days=days): through the ordinal and the seconds of the day
datetime_add_days(dt, days) ==
    LET delta_days    == ymd2ord(dt.year, dt.month, dt.day) + days
        delta_seconds == dt.hour * 3600 + dt.minute * 60 + dt.second
        d             == ord2ymd(delta_days)
    IN  [year |-> d.year, month |-> d.month, day |-> d.day,
         hour |-> delta_seconds \div 3600,
         minute |-> (delta_seconds % 3600) \div 60,
         second |-> delta_seconds % 60]

Digits == <<"0", "1", "2", "3", "4", "5", "6", "7", "8", "9">>

RECURSIVE zero_pad(_, _)
zero_pad(n, width) ==
    IF width = 0 THEN <<>>
    ELSE Append(zero_pad(n \div 10, width - 1), Digits[(n % 10) + 1])

\* strftime("%Y-%m-%dT%H:%M:%SZ"): the text, one character per element
strftime(dt) ==
    zero_pad(dt.year, 4) \o <<"-">> \o zero_pad(dt.month, 2) \o <<"-">>
        \o zero_pad(dt.day, 2) \o <<"T">> \o zero_pad(dt.hour, 2) \o <<":">>
        \o zero_pad(dt.minute, 2) \o <<":">> \o zero_pad(dt.second, 2) \o <<"Z">>

(***************************************************************************)
(* Reading a timestamp text back (the service's side of the contract): the *)
(* instant an ISO-8601 "YYYY-MM-DDTHH:MM:SSZ" text denotes, by the         *)
(* days-from-civil computation, independent of the ordinals above.         *)
(***************************************************************************)
DigitValue(c) == (CHOOSE k \in 1..10 : Digits[k] = c) - 1

RECURSIVE DecimalValue(_)
DecimalValue(s) ==
    IF s = <<>> THEN 0
    ELSE DecimalValue(SubSeq(s, 1, Len(s) - 1)) * 10 + DigitValue(s[Len(s)])

DaysFromCivil(y0, m, d) ==
    LET y   == IF m <= 2 THEN y0 - 1 ELSE y0
        era == y \div 400
        yoe == y - era * 400
        mp  == (m + 9) % 12
        doy == (153 * mp + 2) \div 5 + d - 1
        doe == yoe * 365 + yoe \div 4 - yoe \div 100 + doy
    IN  era * 146097 + doe - 719468

InstantOfText(s) ==
    [day |-> DaysFromCivil(DecimalValue(SubSeq(s, 1, 4)),
                           DecimalValue(SubSeq(s, 6, 7)),
                           DecimalValue(SubSeq(s, 9, 10))),
     sec |-> DecimalValue(SubSeq(s, 12, 13)) * 3600
             + DecimalValue(SubSeq(s, 15, 16)) * 60
             + DecimalValue(SubSeq(s, 18, 19))]

WellFormedText(s) ==
    /\ Len(s) = 20
    /\ s[5] = "-" /\ s[8] = "-" /\ s[11] = "T"
    /\ s[14] = ":" /\ s[17] = ":" /\ s[20] = "Z"
    /\ \A k \in (1..19) \ {5, 8, 11, 14, 17} : \E j \in 1..10 : Digits[j] = s[k]

(***************************************************************************)
(* Strings whose characters matter are sequences of one-character strings. *)
(***************************************************************************)
UpperCase == <<"A", "E", "N", "O", "R", "S", "T", "U", "Y">>
LowerCase == <<"a", "e", "n", "o", "r", "s", "t", "u", "y">>

\* str.lower(), character by character
lower_char(c) ==
    IF \E k \in DOMAIN UpperCase : UpperCase[k] = c
    THEN LowerCase[CHOOSE k \in DOMAIN UpperCase : UpperCase[k] = c]
    ELSE c

lower(s) == [k \in DOMAIN s |-> lower_char(s[k])]

RECURSIVE str(_)
\* str(n) of a non-negative integer, as f"{n}" formats it
str(n) == IF n < 10 THEN <<Digits[n + 1]>> ELSE Append(str(n \div 10), Digits[(n % 10) + 1])

\* Python's None
None == "<None>"

\* os.getenv(name) and os.getenv(name, default) on an environment e, a function
\* from the names that are set to their values
getenv(e, name, default) == IF name \in DOMAIN e THEN e[name] ELSE default

\* bool(x) of a string or None
truthy(x) == x # None /\ x # ""

RequiredNames == {"AZURE_SUBSCRIPTION_ID", "STORAGE_ACCOUNT_ID", "CONTAINER_NAME"}

subscription_id(e) == getenv(e, "AZURE_SUBSCRIPTION_ID", None)
storage_account_id(e) == getenv(e, "STORAGE_ACCOUNT_ID", None)
container_name(e) == getenv(e, "CONTAINER_NAME", None)
export_name(e) == getenv(e, "EXPORT_NAME", "DailyCostExport")
time_zone(e) == getenv(e, "TIME_ZONE", "Central Standard Time")
root_folder_path(e) == getenv(e, "ROOT_FOLDER_PATH", "costexports")

\* a variant of env_valid: the three names are set, possibly to the empty string
env_valid_if_set(e) ==
    subscription_id(e) # None /\ storage_account_id(e) # None /\ container_name(e) # None

\* all([subscription_id, storage_account_id, container_name])
env_valid(e) ==
    truthy(subscription_id(e)) /\ truthy(storage_account_id(e)) /\ truthy(container_name(e))

\* a variant of trigger_now: the comparison without .lower()
trigger_now_case_sensitive(e) ==
    getenv(e, "TRIGGER_NOW", <<"f", "a", "l", "s", "e">>)
        \in {<<"t", "r", "u", "e">>, <<"1">>, <<"y", "e", "s">>}

\* os.getenv("TRIGGER_NOW", "false").lower() in ["true", "1", "yes"]
trigger_now(e) ==
    lower(getenv(e, "TRIGGER_NOW", <<"f", "a", "l", "s", "e">>))
        \in {<<"t", "r", "u", "e">>, <<"1">>, <<"y", "e", "s">>}

\* timedelta(days=365)
RecurrenceDays == 365

\* a variant of Columns: Cost before ServiceName
ColumnsCostFirst ==
    <<"Date", "ResourceId", "ResourceGroupName", "Cost", "ServiceName", "Currency">>

Columns == <<"Date", "ResourceId", "ResourceGroupName", "ServiceName", "Cost", "Currency">>

\* the request body, built from the environment and one reading of the clock
ExportPayload(e, start_date) ==
    LET end_date == datetime_add_days(start_date, RecurrenceDays)
    IN  [properties |->
          [deliveryInfo |->
            [destination |->
              [resourceId |-> storage_account_id(e),
               container |-> container_name(e),
               rootFolderPath |-> root_folder_path(e)]],
           format |-> "Csv",
           schedule |->
             [status |-> "Active",
              recurrence |-> "Daily",
              recurrencePeriod |->
                [from |-> strftime(start_date), to |-> strftime(end_date)],
              timeZone |-> time_zone(e)],
           timeframe |-> "MonthToDate",
           dataSet |->
             [granularity |-> "Daily",
              configuration |-> [columns |-> Columns]]]]

api_version == "2023-03-01"

\* the f-strings of the two URLs, piece by piece
export_url(e) ==
    <<"https://management.azure.com/subscriptions/", subscription_id(e),
      "/providers/Microsoft.CostManagement/exports/", export_name(e),
      "?api-version=", api_version>>

run_url(e) ==
    <<"https://management.azure.com/subscriptions/", subscription_id(e),
      "/providers/Microsoft.CostManagement/exports/", export_name(e), "/run",
      "?api-version=", api_version>>

request_headers(token) ==
    [Authorization |-> <<"Bearer ", token>>, ContentType |-> "application/json"]

(***************************************************************************)
(* The runs and their inputs.                                              *)
(***************************************************************************)
Instances == {"A", "B"}

\* how many times the clock may advance during the runs
MaxTicks == 1

OptionalNames == {"EXPORT_NAME", "TIME_ZONE", "ROOT_FOLDER_PATH"}

\* the values a run's operator gives the variables that are set
SetValue(i, name) ==
    CASE name = "AZURE_SUBSCRIPTION_ID" -> "sub-0001"
      [] name = "STORAGE_ACCOUNT_ID" -> IF i = "A" THEN "/storageAccounts/acctA"
                                                 ELSE "/storageAccounts/acctB"
      [] name = "CONTAINER_NAME" -> IF i = "A" THEN "exports" ELSE "exports-b"
      [] name = "EXPORT_NAME" -> "NightlyExport"
      [] name = "TIME_ZONE" -> "UTC"
      [] name = "ROOT_FOLDER_PATH" -> "finops"

Unset == <<"<unset>">>

TriggerValues ==
    {Unset, <<>>, <<"t", "r", "u", "e">>, <<"T", "R", "U", "E">>, <<"1">>,
     <<"Y", "e", "s">>, <<"0">>, <<" ", "y", "e", "s">>}

\* an environment: req says of each required name whether it is "unset", "empty"
\* or "set"; opt is the set of optional names that are set; trig is TRIGGER_NOW
MkEnv(i, req, opt, trig) ==
    LET names == {n \in RequiredNames : req[n] # "unset"} \cup opt
                    \cup (IF trig = Unset THEN {} ELSE {"TRIGGER_NOW"})
    IN  [n \in names |->
            IF n = "TRIGGER_NOW" THEN trig
            ELSE IF n \in RequiredNames /\ req[n] = "empty" THEN ""
            ELSE SetValue(i, n)]

AllSet == [n \in RequiredNames |-> "set"]

\* the environments run A is tried with: every way of leaving required names
\* unset or empty, and every value of TRIGGER_NOW with and without the options
EnvCasesA ==
    {MkEnv("A", req, {}, <<"t", "r", "u", "e">>) :
        req \in [RequiredNames -> {"unset", "empty", "set"}]}
    \cup {MkEnv("A", AllSet, opt, trig) :
            opt \in {{}, OptionalNames}, trig \in TriggerValues}

\* the environments run B is tried with: the same export as A's, another export
\* and a missing variable
EnvCasesB ==
    {MkEnv("B", AllSet, {}, <<"1">>),
     MkEnv("B", AllSet, OptionalNames, Unset),
     MkEnv("B", [AllSet EXCEPT !["CONTAINER_NAME"] = "unset"], {}, Unset)}

\* the instants (day since 1970-01-01, second of the day) the clock starts at:
\* the last second of 2023-12-31, so that a tick crosses into the leap year
StartInstants ==
    {[day |-> DaysFromCivil(2023, 12, 31), sec |-> SecondsPerDay - 1]}

Tokens == {"eyJ0-token"}
AuthErrors == {"ClientAuthenticationError"}
TransportErrors == {"ConnectionError"}

PutResponses ==
    {[status_code |-> 200, text |-> "{export}"],
     [status_code |-> 201, text |-> "{export}"],
     [status_code |-> 202, text |-> ""],
     [status_code |-> 204, text |-> ""],
     [status_code |-> 403, text |-> "AuthorizationFailed"]}

PostResponses ==
    {[status_code |-> 200, text |-> ""],
     [status_code |-> 202, text |-> ""],
     [status_code |-> 204, text |-> ""],
     [status_code |-> 500, text |-> "InternalServerError"]}

Raised(ex) == [raised |-> TRUE, ex |-> ex]
Returned(r) == [raised |-> FALSE, response |-> r]

VARIABLES
    env,            \* os.environ of each run
    pc,             \* where each run is in the script
    exits,          \* the exit statuses each run's process ended with
    access_token,   \* token.token, of the runs that assigned it
    start_date,     \* the instant read from the clock, of the runs that read it
    payload,        \* the request body, of the runs that built it
    calls,          \* the calls each run made to its collaborators, in order
    log,            \* the records each run logged, in order
    remote,         \* the service: export definitions by <<subscription, name>>
    applied,        \* the service: the PUTs it applied, in order
    now,            \* the clock
    ticks           \* how often the clock advanced

vars == <<env, pc, exits, access_token, start_date, payload, calls, log,
          remote, applied, now, ticks>>

Init ==
    /\ env \in {[i \in Instances |-> IF i = "A" THEN a ELSE b] :
                    a \in EnvCasesA, b \in EnvCasesB}
    /\ pc = [i \in Instances |-> "validate"]
    /\ exits = [i \in Instances |-> <<>>]
    /\ access_token = <<>>
    /\ start_date = <<>>
    /\ payload = <<>>
    /\ calls = [i \in Instances |-> <<>>]
    /\ log = [i \in Instances |-> <<>>]
    /\ remote = <<>>
    /\ applied = <<>>
    /\ now \in StartInstants
    /\ ticks = 0

Record(level, msg) == [level |-> level, msg |-> msg]

\* logging.*: append the records to the run's log
Logged(i, records) == log' = [log EXCEPT ![i] = @ \o records]

\* sys.exit(status), and the end of the script (status 0)
Exit(i, status) ==
    /\ exits' = [exits EXCEPT ![i] = Append(@, status)]
    /\ pc' = [pc EXCEPT ![i] = "exited"]

\* a variant of MissingEnvRecords: the second record names the missing variables
MissingEnvRecordsNamingMissing(e) ==
    <<Record("ERROR", <<"Missing required environment variables.">>),
      Record("INFO", <<"Required: ">>
                \o (IF truthy(subscription_id(e)) THEN <<>> ELSE <<"AZURE_SUBSCRIPTION_ID">>)
                \o (IF truthy(storage_account_id(e)) THEN <<>> ELSE <<"STORAGE_ACCOUNT_ID">>)
                \o (IF truthy(container_name(e)) THEN <<>> ELSE <<"CONTAINER_NAME">>))>>

\* the records of the validation failure
MissingEnvRecords(e) ==
    <<Record("ERROR", <<"Missing required environment variables.">>),
      Record("INFO", <<"Required: ", "AZURE_SUBSCRIPTION_ID", ", ",
                       "STORAGE_ACCOUNT_ID", ", ", "CONTAINER_NAME">>)>>

\* if not all([...]): log and sys.exit(1)
ExitMissingEnv(i) ==
    /\ pc[i] = "validate"
    /\ ~env_valid(env[i])
    /\ Logged(i, MissingEnvRecords(env[i]))
    /\ Exit(i, 1)
    /\ UNCHANGED <<env, access_token, start_date, payload, calls, remote, applied,
                   now, ticks>>

EnvValidated(i) ==
    /\ pc[i] = "validate"
    /\ env_valid(env[i])
    /\ pc' = [pc EXCEPT ![i] = "auth"]
    /\ UNCHANGED <<env, exits, access_token, start_date, payload, calls, log,
                   remote, applied, now, ticks>>

TokenCall(result) ==
    [op |-> "get_token", scope |-> "https://management.azure.com/.default",
     result |-> result]

\* the try block of the token acquisition, when get_token returns
TokenAcquired(i) ==
    /\ pc[i] = "auth"
    /\ \E t \in Tokens :
        /\ calls' = [calls EXCEPT ![i] = Append(@, TokenCall(Returned(t)))]
        /\ access_token' = (i :> t) @@ access_token
    /\ Logged(i, <<Record("INFO", <<"Successfully acquired Azure access token.">>)>>)
    /\ pc' = [pc EXCEPT ![i] = "build"]
    /\ UNCHANGED <<env, exits, start_date, payload, remote, applied, now, ticks>>

\* a variant of TokenFailed: the failure is logged and the acquisition tried again
TokenFailedRetried(i) ==
    /\ pc[i] = "auth"
    /\ \E ex \in AuthErrors :
        /\ calls' = [calls EXCEPT ![i] = Append(@, TokenCall(Raised(ex)))]
        /\ Logged(i, <<Record("ERROR", <<"Authentication failed: ", ex>>)>>)
    /\ UNCHANGED <<env, pc, exits, access_token, start_date, payload, remote, applied,
                   now, ticks>>

\* the try block of the token acquisition, when the credential raises
TokenFailed(i) ==
    /\ pc[i] = "auth"
    /\ \E ex \in AuthErrors :
        /\ calls' = [calls EXCEPT ![i] = Append(@, TokenCall(Raised(ex)))]
        /\ Logged(i, <<Record("ERROR", <<"Authentication failed: ", ex>>)>>)
    /\ Exit(i, 1)
    /\ UNCHANGED <<env, access_token, start_date, payload, remote, applied, now, ticks>>

\* start_date, end_date, payload, url, headers and the log line before the PUT
BuildPayload(i) ==
    /\ pc[i] = "build"
    /\ start_date' = (i :> now) @@ start_date
    /\ payload' = (i :> ExportPayload(env[i], utc_datetime(now))) @@ payload
    /\ Logged(i, <<Record("INFO", <<"Creating or updating export '", export_name(env[i]),
                                    "' for subscription ", subscription_id(env[i])>>)>>)
    /\ pc' = [pc EXCEPT ![i] = "put"]
    /\ UNCHANGED <<env, exits, access_token, calls, remote, applied, now, ticks>>

\* the export a URL of the service names
ExportKey(url) == <<url[2], url[4]>>

\* a variant of put_json: the body keeps the destination of the definition the
\* service holds, when it holds one
put_json_merged(i) ==
    LET key == ExportKey(export_url(env[i]))
    IN  IF key \in DOMAIN remote
        THEN [payload[i] EXCEPT !.properties.deliveryInfo =
                                    remote[key].properties.deliveryInfo]
        ELSE payload[i]

\* the json argument of requests.put
put_json(i) == payload[i]

PutCall(i, result) ==
    [op |-> "PUT", url |-> export_url(env[i]),
     headers |-> request_headers(access_token[i]),
     json |-> put_json(i), result |-> result]

\* the service's side of a PUT: a PUT it applies replaces the whole definition
\* of the named export by the body sent
ServiceApplies(call, yes) ==
    IF yes
    THEN /\ remote' = (ExportKey(call.url) :> call.json) @@ remote
         /\ applied' = Append(applied, [key |-> ExportKey(call.url), json |-> call.json])
    ELSE UNCHANGED <<remote, applied>>

\* whether the service applied a PUT it answered with result: it did when it
\* says so (200, 201), did not when it refused, and either when the answer is
\* another 2xx or never arrived
MayApply(result) ==
    IF result.raised THEN BOOLEAN
    ELSE IF result.response.status_code \in {200, 201} THEN {TRUE}
    ELSE IF result.response.status_code \in 200..299 THEN BOOLEAN
    ELSE {FALSE}

\* a variant of put_ok: any 2xx status
put_ok_any_2xx(response) == response.status_code \in 200..299

\* response.status_code in (200, 201)
put_ok(response) == response.status_code \in {200, 201}

PutSucceeded(i) ==
    /\ pc[i] = "put"
    /\ \E r \in PutResponses :
        /\ put_ok(r)
        /\ LET call == PutCall(i, Returned(r))
           IN  /\ calls' = [calls EXCEPT ![i] = Append(@, call)]
               /\ \E yes \in MayApply(call.result) : ServiceApplies(call, yes)
    /\ Logged(i, <<Record("INFO", <<"Export '", export_name(env[i]),
                                    "' created or updated successfully.">>)>>)
    /\ pc' = [pc EXCEPT ![i] = "trigger"]
    /\ UNCHANGED <<env, exits, access_token, start_date, payload, now, ticks>>

PutRejected(i) ==
    /\ pc[i] = "put"
    /\ \E r \in PutResponses :
        /\ ~put_ok(r)
        /\ LET call == PutCall(i, Returned(r))
           IN  /\ calls' = [calls EXCEPT ![i] = Append(@, call)]
               /\ \E yes \in MayApply(call.result) : ServiceApplies(call, yes)
        /\ Logged(i, <<Record("ERROR", <<"Error creating export (">> \o str(r.status_code)
                                          \o <<"): ", r.text>>)>>)
    /\ Exit(i, 1)
    /\ UNCHANGED <<env, access_token, start_date, payload, now, ticks>>

\* a variant of PutRaised: the exception is logged and the script goes on
PutRaisedSwallowed(i) ==
    /\ pc[i] = "put"
    /\ \E ex \in TransportErrors :
        /\ LET call == PutCall(i, Raised(ex))
           IN  /\ calls' = [calls EXCEPT ![i] = Append(@, call)]
               /\ \E yes \in MayApply(call.result) : ServiceApplies(call, yes)
        /\ Logged(i, <<Record("ERROR", <<"Request failed: ", ex>>)>>)
    /\ pc' = [pc EXCEPT ![i] = "trigger"]
    /\ UNCHANGED <<env, exits, access_token, start_date, payload, now, ticks>>

PutRaised(i) ==
    /\ pc[i] = "put"
    /\ \E ex \in TransportErrors :
        /\ LET call == PutCall(i, Raised(ex))
           IN  /\ calls' = [calls EXCEPT ![i] = Append(@, call)]
               /\ \E yes \in MayApply(call.result) : ServiceApplies(call, yes)
        /\ Logged(i, <<Record("ERROR", <<"Request failed: ", ex>>)>>)
    /\ Exit(i, 1)
    /\ UNCHANGED <<env, access_token, start_date, payload, now, ticks>>

Completed == Record("INFO", <<"Process completed successfully.">>)

\* if trigger_now is false: the last log line and the end of the script
TriggerSkipped(i) ==
    /\ pc[i] = "trigger"
    /\ ~trigger_now(env[i])
    /\ Logged(i, <<Completed>>)
    /\ Exit(i, 0)
    /\ UNCHANGED <<env, access_token, start_date, payload, calls, remote, applied,
                   now, ticks>>

PostCall(i, result) ==
    [op |-> "POST", url |-> run_url(env[i]),
     headers |-> request_headers(access_token[i]), result |-> result]

\* run_response.status_code in (200, 202)
post_ok(response) == response.status_code \in {200, 202}

\* the record logged for the outcome of the POST
TriggerRecord(e, result) ==
    IF result.raised
    THEN Record("ERROR", <<"Failed to trigger export run: ", result.ex>>)
    ELSE IF post_ok(result.response)
    THEN Record("INFO", <<"Triggered export '", export_name(e), "' successfully.">>)
    ELSE Record("WARNING", <<"Trigger returned ">> \o str(result.response.status_code)
                              \o <<": ", result.response.text>>)

\* a variant of status_after_trigger: a failed trigger is fatal
status_after_failed_trigger(result) ==
    IF result.raised THEN 1 ELSE IF post_ok(result.response) THEN 0 ELSE 1

\* the exit status after the trigger block
status_after_trigger(result) == 0

\* if trigger_now: the POST, its log record, the last log line and the end
TriggerPosted(i) ==
    /\ pc[i] = "trigger"
    /\ trigger_now(env[i])
    /\ \E result \in {Returned(r) : r \in PostResponses}
                        \cup {Raised(ex) : ex \in TransportErrors} :
        /\ calls' = [calls EXCEPT ![i] = Append(@, PostCall(i, result))]
        /\ Logged(i, <<TriggerRecord(env[i], result), Completed>>)
        /\ Exit(i, status_after_trigger(result))
    /\ UNCHANGED <<env, access_token, start_date, payload, remote, applied, now, ticks>>

\* a second passes
Tick ==
    /\ ticks < MaxTicks
    /\ ticks' = ticks + 1
    /\ now' = IF now.sec + 1 = SecondsPerDay
              THEN [day |-> now.day + 1, sec |-> 0]
              ELSE [day |-> now.day, sec |-> now.sec + 1]
    /\ UNCHANGED <<env, pc, exits, access_token, start_date, payload, calls, log,
                   remote, applied>>

Step(i) ==
    \/ ExitMissingEnv(i)
    \/ EnvValidated(i)
    \/ TokenAcquired(i)
    \/ TokenFailed(i)
    \/ BuildPayload(i)
    \/ PutSucceeded(i)
    \/ PutRejected(i)
    \/ PutRaised(i)
    \/ TriggerSkipped(i)
    \/ TriggerPosted(i)

Next == (\E i \in Instances : Step(i)) \/ Tick

Spec == Init /\ [][Next]_vars

(***************************************************************************)
(* A single run (A; B is never started) over a range of clock readings.    *)
(***************************************************************************)
\* the number of consecutive days, from 2023-12-25 on, the clock may start in
CalendarDays == 380

CalendarInstants ==
    {[day |-> DaysFromCivil(2023, 12, 25) + d, sec |-> s] :
        d \in 0..(CalendarDays - 1), s \in {0, SecondsPerDay - 1}}

CalendarEnvCases ==
    {MkEnv("A", AllSet, {}, <<"1">>),
     MkEnv("A", AllSet, OptionalNames, Unset),
     MkEnv("A", [AllSet EXCEPT !["STORAGE_ACCOUNT_ID"] = "empty"], {}, Unset)}

InitCalendar ==
    /\ env \in {[i \in Instances |-> IF i = "A" THEN a
                                      ELSE MkEnv("B", AllSet, {}, Unset)] :
                    a \in CalendarEnvCases}
    /\ pc = [i \in Instances |-> "validate"]
    /\ exits = [i \in Instances |-> <<>>]
    /\ access_token = <<>>
    /\ start_date = <<>>
    /\ payload = <<>>
    /\ calls = [i \in Instances |-> <<>>]
    /\ log = [i \in Instances |-> <<>>]
    /\ remote = <<>>
    /\ applied = <<>>
    /\ now \in CalendarInstants
    /\ ticks = 0

NextCalendar == Step("A") \/ Tick

SpecCalendar == InitCalendar /\ [][NextCalendar]_vars

(***************************************************************************)
(* Observations of a run, for the properties below.                        *)
(***************************************************************************)
Exited(i) == pc[i] = "exited"

CallsWith(i, op) == SelectSeq(calls[i], LAMBDA c : c.op = op)

Issued(i, op) == Len(CallsWith(i, op)) > 0

\* the order of the operations a run called
OpsOf(i) == [k \in DOMAIN calls[i] |-> calls[i][k].op]

IsPrefix(a, b) == Len(a) <= Len(b) /\ a = SubSeq(b, 1, Len(a))

\* the names of the required variables that are unset or empty
MissingNames(e) == {n \in RequiredNames : n \notin DOMAIN e \/ e[n] = ""}

AuthFailed(i) == Issued(i, "get_token") /\ CallsWith(i, "get_token")[1].result.raised

\* the PUT came back with status 200 or 201
PutAccepted(i) ==
    /\ Issued(i, "PUT")
    /\ LET res == CallsWith(i, "PUT")[1].result
       IN  ~res.raised /\ (res.response.status_code = 200 \/ res.response.status_code = 201)

PutFailed(i) == Issued(i, "PUT") /\ ~PutAccepted(i)

LastRecord(i) == log[i][Len(log[i])]

\* text a equals text b up to the case of its letters
EqualIgnoringCase(a, b) ==
    /\ Len(a) = Len(b)
    /\ \A k \in DOMAIN a :
          \/ a[k] = b[k]
          \/ \E j \in DOMAIN UpperCase :
                {a[k], b[k]} = {UpperCase[j], LowerCase[j]}

\* TRIGGER_NOW is set to "true", "1" or "yes" in some case of letters
OptedIn(e) ==
    /\ "TRIGGER_NOW" \in DOMAIN e
    /\ \E w \in {<<"t", "r", "u", "e">>, <<"1">>, <<"y", "e", "s">>} :
          EqualIgnoringCase(e["TRIGGER_NOW"], w)

(***************************************************************************)
(* C1: a run with a required variable unset or empty never calls the       *)
(* credential, never PUTs and never POSTs; its only step is the exit, and  *)
(* it exits with status 1.                                                 *)
(***************************************************************************)
C1_MissingEnvExitsBeforeAnyCall ==
    \A i \in Instances :
        MissingNames(env[i]) # {} =>
            /\ calls[i] = <<>>
            /\ i \notin DOMAIN access_token
            /\ pc[i] \in {"validate", "exited"}
            /\ pc[i] = "validate" => ENABLED ExitMissingEnv(i)
            /\ Exited(i) => exits[i] = <<1>>

\* a run whose subscription id is set but empty has exited
C1_Witness ==
    \E i \in Instances :
        /\ "AZURE_SUBSCRIPTION_ID" \in DOMAIN env[i]
        /\ env[i]["AZURE_SUBSCRIPTION_ID"] = ""
        /\ MissingNames(env[i]) = {"AZURE_SUBSCRIPTION_ID"}
        /\ Exited(i)

(***************************************************************************)
(* C2: when the credential raises, the run has made that one call and no   *)
(* other (no second get_token, no PUT, no POST), has logged the failure    *)
(* and has exited with status 1.                                           *)
(***************************************************************************)
C2_AuthFailureExitsWithoutHttp ==
    \A i \in Instances :
        /\ Len(CallsWith(i, "get_token")) <= 1
        /\ AuthFailed(i) =>
            /\ MissingNames(env[i]) = {}
            /\ Len(calls[i]) = 1
            /\ Exited(i)
            /\ exits[i] = <<1>>
            /\ LastRecord(i).level = "ERROR"
            /\ LastRecord(i).msg[1] = "Authentication failed: "

\* a run that asked for the trigger saw its credential raise
C2_Witness ==
    \E i \in Instances : AuthFailed(i) /\ OptedIn(env[i]) /\ Exited(i)

(***************************************************************************)
(* C3: a run that acquired a token PUTs exactly once before it goes on; a  *)
(* PUT answered by a status other than 200 and 201, or not answered, is    *)
(* the run's last call (no second PUT, no POST), is logged as an error     *)
(* (with the status code and the body, for a status) and ends the run with *)
(* status 1, whatever TRIGGER_NOW is.                                      *)
(***************************************************************************)
C3_PutFailureIsFatal ==
    \A i \in Instances :
        /\ Len(CallsWith(i, "PUT")) <= 1
        /\ Issued(i, "PUT") => i \in DOMAIN access_token
        /\ (i \in DOMAIN access_token /\ pc[i] \in {"trigger", "exited"}) =>
                Len(CallsWith(i, "PUT")) = 1
        /\ PutFailed(i) =>
            LET res == CallsWith(i, "PUT")[1].result
            IN  /\ calls[i][Len(calls[i])].op = "PUT"
                /\ ~Issued(i, "POST")
                /\ Exited(i)
                /\ exits[i] = <<1>>
                /\ LastRecord(i).level = "ERROR"
                /\ ~res.raised =>
                      LastRecord(i).msg =
                          <<"Error creating export (">> \o str(res.response.status_code)
                              \o <<"): ", res.response.text>>
                /\ res.raised => LastRecord(i).msg = <<"Request failed: ", res.ex>>

\* a run that asked for the trigger had its PUT answered 204
C3_Witness ==
    \E i \in Instances :
        /\ OptedIn(env[i])
        /\ Issued(i, "PUT")
        /\ ~CallsWith(i, "PUT")[1].result.raised
        /\ CallsWith(i, "PUT")[1].result.response.status_code = 204
        /\ Exited(i)

(***************************************************************************)
(* C4: a run whose PUT was accepted and that asked for the trigger POSTs   *)
(* once and ends with status 0 whatever the POST's outcome: 200 or 202 is  *)
(* logged as INFO, another status as WARNING, an exception as ERROR.       *)
(***************************************************************************)
C4_TriggerFailureIsNotFatal ==
    \A i \in Instances :
        /\ Len(CallsWith(i, "POST")) <= 1
        /\ (Exited(i) /\ PutAccepted(i) /\ OptedIn(env[i])) => Issued(i, "POST")
        /\ Issued(i, "POST") =>
            LET res == CallsWith(i, "POST")[1].result
                rec == log[i][Len(log[i]) - 1]
            IN  /\ Exited(i)
                /\ exits[i] = <<0>>
                /\ LastRecord(i).msg = <<"Process completed successfully.">>
                /\ res.raised => rec.level = "ERROR"
                /\ (~res.raised /\ res.response.status_code \in {200, 202}) =>
                        rec.level = "INFO"
                /\ (~res.raised /\ res.response.status_code \notin {200, 202}) =>
                        /\ rec.level = "WARNING"
                        /\ rec.msg = <<"Trigger returned ">>
                                        \o str(res.response.status_code)
                                        \o <<": ", res.response.text>>

\* a run's POST was answered 500 and the run has ended
C4_Witness ==
    \E i \in Instances :
        /\ Issued(i, "POST")
        /\ ~CallsWith(i, "POST")[1].result.raised
        /\ CallsWith(i, "POST")[1].result.response.status_code = 500
        /\ Exited(i)

(***************************************************************************)
(* C5: a run ends with exactly one status, 0 or 1: 1 exactly when a        *)
(* required variable was missing, the credential raised or the PUT failed, *)
(* and 0 exactly when the PUT was accepted.                                *)
(***************************************************************************)
C5_ExitStatusIsZeroOrOne ==
    \A i \in Instances :
        /\ ~Exited(i) => exits[i] = <<>>
        /\ Exited(i) =>
            /\ Len(exits[i]) = 1
            /\ exits[i][1] \in {0, 1}
            /\ exits[i][1] = 1 <=>
                  (MissingNames(env[i]) # {} \/ AuthFailed(i) \/ PutFailed(i))
            /\ exits[i][1] = 0 <=> PutAccepted(i)

\* a run ended with status 0 although its POST raised
C5_Witness ==
    \E i \in Instances :
        /\ Exited(i)
        /\ exits[i] = <<0>>
        /\ Issued(i, "POST")
        /\ CallsWith(i, "POST")[1].result.raised

(***************************************************************************)
(* C6: a run that has ended POSTed if and only if its PUT was accepted and *)
(* TRIGGER_NOW is "true", "1" or "yes" in some case of letters; a run's    *)
(* calls are, in this order, get_token, PUT, POST; the POST names the      *)
(* PUT's subscription and export and carries its headers, whose token is   *)
(* the one get_token returned.                                             *)
(***************************************************************************)
C6_PostOnlyWhenOptedIn ==
    \A i \in Instances :
        /\ IsPrefix(OpsOf(i), <<"get_token", "PUT", "POST">>)
        /\ Issued(i, "POST") => (PutAccepted(i) /\ OptedIn(env[i]))
        /\ Exited(i) => (Issued(i, "POST") <=> (PutAccepted(i) /\ OptedIn(env[i])))
        /\ Issued(i, "PUT") =>
              calls[i][2].headers.Authorization
                  = <<"Bearer ", calls[i][1].result.response>>
        /\ Issued(i, "POST") =>
            LET put == calls[i][2]
                post == calls[i][3]
            IN  /\ post.url[2] = put.url[2]
                /\ post.url[4] = put.url[4]
                /\ post.url[2] = env[i]["AZURE_SUBSCRIPTION_ID"]
                /\ post.url = SubSeq(put.url, 1, 4) \o <<"/run">> \o SubSeq(put.url, 5, 6)
                /\ post.headers = put.headers

\* a run with TRIGGER_NOW=TRUE has POSTed
C6_Witness ==
    \E i \in Instances :
        /\ "TRIGGER_NOW" \in DOMAIN env[i]
        /\ env[i]["TRIGGER_NOW"] = <<"T", "R", "U", "E">>
        /\ Issued(i, "POST")

\* a run with TRIGGER_NOW set to " yes" (not one of the three words) has ended
\* after an accepted PUT
C6_WitnessSkipped ==
    \E i \in Instances :
        /\ "TRIGGER_NOW" \in DOMAIN env[i]
        /\ env[i]["TRIGGER_NOW"] = <<" ", "y", "e", "s">>
        /\ PutAccepted(i)
        /\ Exited(i)

(***************************************************************************)
(* C7: the required names a run's log mentions.                            *)
(***************************************************************************)
NamesLogged(i) ==
    {n \in RequiredNames :
        \E k \in DOMAIN log[i] : \E j \in DOMAIN log[i][k].msg : log[i][k].msg[j] = n}

\* C7 as claimed: a run that ended on a missing required variable has logged
\* exactly the names of the variables that are missing
C7_LogNamesTheMissingVariables ==
    \A i \in Instances :
        (Exited(i) /\ MissingNames(env[i]) # {}) => NamesLogged(i) = MissingNames(env[i])

\* C7 as amended: a run that ended on a missing required variable has logged
\* an error saying that required variables are missing and a line listing all
\* three required names, whichever of them are missing, and exited with 1
C7_LogListsAllRequiredNames ==
    \A i \in Instances :
        (Exited(i) /\ MissingNames(env[i]) # {}) =>
            /\ Len(log[i]) = 2
            /\ log[i][1].level = "ERROR"
            /\ log[i][1].msg = <<"Missing required environment variables.">>
            /\ log[i][2].msg[1] = "Required: "
            /\ NamesLogged(i) = RequiredNames
            /\ exits[i] = <<1>>

\* a run ended with CONTAINER_NAME alone missing
C7_Witness ==
    \E i \in Instances : Exited(i) /\ MissingNames(env[i]) = {"CONTAINER_NAME"}

(***************************************************************************)
(* C8: with runs interleaved, the definition the service holds for an      *)
(* export is the whole body of the PUT it applied last for that export,    *)
(* which is the whole payload one run built from its own environment and   *)
(* its own reading of the clock; a run calls nothing but get_token, PUT    *)
(* and POST (it never reads the definition); and a run's exit status is    *)
(* decided by its own environment and the answers to its own calls.        *)
(***************************************************************************)
LastApplied(key) ==
    LET ks == {k \in DOMAIN applied : applied[k].key = key}
    IN  applied[CHOOSE k \in ks : \A j \in ks : j <= k]

OwnStatus(i) ==
    IF MissingNames(env[i]) # {} \/ AuthFailed(i) \/ PutFailed(i) THEN 1 ELSE 0

C8_LastPutWinsWhole ==
    /\ DOMAIN remote = {applied[k].key : k \in DOMAIN applied}
    /\ \A key \in DOMAIN remote :
        /\ remote[key] = LastApplied(key).json
        /\ \E i \in DOMAIN payload :
            /\ ExportKey(export_url(env[i])) = key
            /\ Issued(i, "PUT")
            /\ remote[key] = payload[i]
            /\ remote[key] = ExportPayload(env[i], utc_datetime(start_date[i]))
    /\ \A i \in Instances :
        /\ \A k \in DOMAIN calls[i] : calls[i][k].op \in {"get_token", "PUT", "POST"}
        /\ Exited(i) => exits[i] = <<OwnStatus(i)>>

\* both runs have ended, the service applied both PUTs to one export, B's
\* first, and holds A's payload, which differs from B's
C8_Witness ==
    /\ \A i \in Instances : Exited(i)
    /\ Len(applied) = 2
    /\ applied[1].key = applied[2].key
    /\ applied[1].json = payload["B"]
    /\ applied[2].json = payload["A"]
    /\ payload["A"] # payload["B"]
    /\ remote[applied[2].key] = payload["A"]

(***************************************************************************)
(* C9: in every payload built, recurrencePeriod.from is the text of the    *)
(* instant read from the clock and recurrencePeriod.to the text of the     *)
(* instant exactly 365 days (365 * 86400 seconds) later.                   *)
(***************************************************************************)
C9_RecurrenceIs365Days ==
    \A i \in DOMAIN payload :
        LET period == payload[i].properties.schedule.recurrencePeriod
        IN  /\ WellFormedText(period.from)
            /\ WellFormedText(period.to)
            /\ InstantOfText(period.from) = start_date[i]
            /\ InstantOfText(period.to) =
                  [day |-> start_date[i].day + 365, sec |-> start_date[i].sec]

\* a payload starts at 2024-02-29T00:00:00Z and ends at 2025-02-28T00:00:00Z
C9_Witness ==
    \E i \in DOMAIN payload :
        LET period == payload[i].properties.schedule.recurrencePeriod
        IN  /\ period.from = <<"2", "0", "2", "4", "-", "0", "2", "-", "2", "9", "T",
                               "0", "0", ":", "0", "0", ":", "0", "0", "Z">>
            /\ period.to = <<"2", "0", "2", "5", "-", "0", "2", "-", "2", "8", "T",
                             "0", "0", ":", "0", "0", ":", "0", "0", "Z">>

(***************************************************************************)
(* C10: in every payload built the columns are Date, ResourceId,           *)
(* ResourceGroupName, ServiceName, Cost, Currency in this order and the    *)
(* other fixed fields have their fixed values; the environment decides     *)
(* only the destination and the time zone.                                 *)
(***************************************************************************)
C10_ColumnsAreFixed ==
    \A i \in DOMAIN payload :
        LET props == payload[i].properties
        IN  /\ props.dataSet.configuration.columns =
                  <<"Date", "ResourceId", "ResourceGroupName", "ServiceName",
                    "Cost", "Currency">>
            /\ props.dataSet.granularity = "Daily"
            /\ props.format = "Csv"
            /\ props.timeframe = "MonthToDate"
            /\ props.schedule.status = "Active"
            /\ props.schedule.recurrence = "Daily"
            /\ props.deliveryInfo.destination.resourceId = env[i]["STORAGE_ACCOUNT_ID"]
            /\ props.deliveryInfo.destination.container = env[i]["CONTAINER_NAME"]
            /\ \A j \in DOMAIN payload :
                  [payload[j] EXCEPT
                      !.properties.deliveryInfo = props.deliveryInfo,
                      !.properties.schedule.timeZone = props.schedule.timeZone,
                      !.properties.schedule.recurrencePeriod =
                          props.schedule.recurrencePeriod] = payload[i]

\* two runs with different destinations, time zones and export names have both
\* built their payloads
C10_Witness ==
    /\ DOMAIN payload = Instances
    /\ payload["A"].properties.deliveryInfo # payload["B"].properties.deliveryInfo
    /\ payload["A"].properties.schedule.timeZone # payload["B"].properties.schedule.timeZone
    /\ export_name(env["A"]) # export_name(env["B"])
====
